---------------------------- MODULE Spec2Model ----------------------------
(***************************************************************************)
(* Model of the window-presentation logic of Pal                           *)
(* (src/gui/src-tauri/src/lib.rs): the commands set_window_mode,           *)
(* show_window and hide_window, the tray menu and tray click handlers, the *)
(* global shortcut handler and the close-request handler, all acting on    *)
(* the one "main" window.                                                  *)
(*                                                                         *)
(* The window handle is the host's: each of its calls is individually      *)
(* fallible.  A handler step takes the set F of calls that fail during     *)
(* that step; a failing call changes nothing, a succeeding setter changes  *)
(* exactly the attribute it names.                                         *)
(***************************************************************************)
EXTENDS Integers, Sequences, FiniteSets, TLC

VARIABLES
    win,        \* attributes of the main window, as the host holds them
    running,    \* FALSE once std::process::exit has been called
    hide_until, \* HideState.hide_until
    last,       \* record of the most recent handler run (what it was given,
                \* the window before it, the calls it issued, what it returned)
    failedBefore, \* the mode whose apply_window_mode call failed at a mutation
                \* in the handler run before the last one, or "none"
    file,       \* the settings file, as the file system holds it
    slast,      \* record of the most recent settings command
    tasks       \* the set_window_mode commands in flight on the async runtime

vars == <<win, running, hide_until, last, failedBefore, file, slast, tasks>>

\* what the handlers of the window leave alone
others == <<failedBefore, file, slast, tasks>>

(***************************************************************************)
(* Bounds and input sets                                                   *)
(***************************************************************************)
\* number of window sizes, besides the three preset ones, a window can start with
MaxExtraSizes == 1

\* number of calls of one handler run that can fail together
MaxFailures == 1

\* the mode strings the match of apply_window_mode knows
Modes == {"full", "widget", "floating"}

\* mode strings that no arm of the match names
OtherModes == {"Full", "compact"}

ModeStrings == Modes \cup OtherModes

\* menu item ids: the five items of the tray menu and one id no arm names
MenuIds == {"show", "full", "widget", "floating", "quit", "about"}

\* tray icon events: the left-button release and any other event
TrayEvents == {"LeftUp", "Other"}

PresetSizes == {<<400, 500>>, <<220, 180>>, <<150, 100>>}

ExtraSizes == {<<800 + 10 * i, 600 + 10 * i>> : i \in 1..MaxExtraSizes}

Sizes == PresetSizes \cup ExtraSizes

MutationCalls == {"set_size", "set_always_on_top", "set_decorations", "set_resizable"}

\* the window calls each handler can issue
ShowCalls == {"show", "set_focus"}

MenuCalls(id, found) ==
    IF ~found THEN {}
    ELSE IF id = "show" THEN ShowCalls
    ELSE IF id \in {"full", "widget", "floating"}
         THEN ShowCalls \cup MutationCalls \cup {"emit"}
    ELSE {}

ShortcutCalls(found) ==
    IF found THEN {"is_visible", "is_focused", "show", "set_focus", "hide"} ELSE {}

\* the sets of calls that fail during one handler run
FailSets(S) == {F \in SUBSET S : Cardinality(F) <= MaxFailures}

WindowStates ==
    {[w |-> s[1], h |-> s[2], always_on_top |-> t, decorated |-> d,
      resizable |-> r, visible |-> v, focused |-> f] :
        s \in Sizes, t \in BOOLEAN, d \in BOOLEAN, r \in BOOLEAN,
        v \in BOOLEAN, f \in BOOLEAN}

(***************************************************************************)
(* Results                                                                 *)
(***************************************************************************)
Ok == [kind |-> "Ok", err |-> ""]

Err(e) == [kind |-> "Err", err |-> e]

\* a handler closure returns nothing
Unit == [kind |-> "Unit", err |-> ""]

(***************************************************************************)
(* The window handle API.  A context c is the window together with the     *)
(* trace of calls issued so far and the events emitted so far.             *)
(***************************************************************************)
Ctx(window) == [win |-> window, calls |-> <<>>, emitted |-> <<>>]

Issue(c, name, F, after) ==
    [c EXCEPT !.calls = Append(@, <<name, name \notin F>>),
              !.win = IF name \in F THEN @ ELSE after]

show(c, F) == Issue(c, "show", F, [c.win EXCEPT !.visible = TRUE])

hide(c, F) == Issue(c, "hide", F, [c.win EXCEPT !.visible = FALSE])

set_focus(c, F) == Issue(c, "set_focus", F, [c.win EXCEPT !.focused = TRUE])

\* variant: resizes the width and keeps the height
set_size_WidthOnly(c, width, height, F) ==
    Issue(c, "set_size", F, [c.win EXCEPT !.w = width])

set_size(c, width, height, F) ==
    Issue(c, "set_size", F, [c.win EXCEPT !.w = width, !.h = height])

\* variant: flips the flag instead of setting it
set_always_on_top_Toggle(c, b, F) ==
    Issue(c, "set_always_on_top", F, [c.win EXCEPT !.always_on_top = ~@])

set_always_on_top(c, b, F) ==
    Issue(c, "set_always_on_top", F, [c.win EXCEPT !.always_on_top = b])

set_decorations(c, b, F) ==
    Issue(c, "set_decorations", F, [c.win EXCEPT !.decorated = b])

set_resizable(c, b, F) ==
    Issue(c, "set_resizable", F, [c.win EXCEPT !.resizable = b])

\* window.is_visible().unwrap_or(false)
is_visible(c, F) == IF "is_visible" \in F THEN FALSE ELSE c.win.visible

\* variant: an unreadable focus counts as focused
is_focused_DefaultTrue(c, F) == IF "is_focused" \in F THEN TRUE ELSE c.win.focused

\* window.is_focused().unwrap_or(false)
is_focused(c, F) == IF "is_focused" \in F THEN FALSE ELSE c.win.focused

\* the read itself, as a call of the trace
Read(c, name, F) == [c EXCEPT !.calls = Append(@, <<name, name \notin F>>)]

\* window.emit("mode-changed", payload)
emit(c, payload, F) ==
    [c EXCEPT !.calls = Append(@, <<"emit", "emit" \notin F>>),
              !.emitted = IF "emit" \in F THEN @ ELSE Append(@, payload)]

(***************************************************************************)
(* apply_window_mode                                                       *)
(***************************************************************************)
\* variant: the results of the calls are dropped, so a failing call does not
\* stop the arm
ApplyArm_NoFailFast(c, width, height, top, dec, res, F) ==
    LET c4 == set_resizable(set_decorations(set_always_on_top(
                  set_size(c, width, height, F), top, F), dec, F), res, F)
    IN  [ctx |-> c4,
         result |-> IF F \cap MutationCalls = {} THEN Ok ELSE Err("set_size")]

\* one arm of the match: four calls, each followed by `?`
ApplyArm(c, width, height, top, dec, res, F) ==
    LET c1 == set_size(c, width, height, F)
        c2 == set_always_on_top(c1, top, F)
        c3 == set_decorations(c2, dec, F)
        c4 == set_resizable(c3, res, F)
    IN  IF "set_size" \in F THEN [ctx |-> c1, result |-> Err("set_size")]
        ELSE IF "set_always_on_top" \in F
             THEN [ctx |-> c2, result |-> Err("set_always_on_top")]
        ELSE IF "set_decorations" \in F
             THEN [ctx |-> c3, result |-> Err("set_decorations")]
        ELSE IF "set_resizable" \in F
             THEN [ctx |-> c4, result |-> Err("set_resizable")]
        ELSE [ctx |-> c4, result |-> Ok]

\* variant: the widget arm keeps the resizable flag of the full arm
apply_window_mode_WidgetResizable(c, mode, F) ==
    CASE mode = "full"     -> ApplyArm(c, 400, 500, FALSE, FALSE, TRUE, F)
      [] mode = "widget"   -> ApplyArm(c, 220, 180, TRUE, FALSE, TRUE, F)
      [] mode = "floating" -> ApplyArm(c, 150, 100, TRUE, FALSE, FALSE, F)
      [] OTHER             -> [ctx |-> c, result |-> Err("Unknown mode")]

\* variant: an unknown mode string falls back to the full arm
apply_window_mode_Coerce(c, mode, F) ==
    CASE mode = "widget"   -> ApplyArm(c, 220, 180, TRUE, FALSE, FALSE, F)
      [] mode = "floating" -> ApplyArm(c, 150, 100, TRUE, FALSE, FALSE, F)
      [] OTHER             -> ApplyArm(c, 400, 500, FALSE, FALSE, TRUE, F)

apply_window_mode(c, mode, F) ==
    CASE mode = "full"     -> ApplyArm(c, 400, 500, FALSE, FALSE, TRUE, F)
      [] mode = "widget"   -> ApplyArm(c, 220, 180, TRUE, FALSE, FALSE, F)
      [] mode = "floating" -> ApplyArm(c, 150, 100, TRUE, FALSE, FALSE, F)
      [] OTHER             -> [ctx |-> c, result |-> Err("Unknown mode")]

(***************************************************************************)
(* The record of a handler run                                             *)
(***************************************************************************)
NoApply == [mode |-> "none", ok |-> FALSE]

\* the mode of the handler's apply_window_mode call when it returned Ok
AppliedOk(applied) == IF applied.ok THEN applied.mode ELSE "none"

\* the mode of the handler's apply_window_mode call when a mutation of it failed
AppliedFailed(applied) ==
    IF ~applied.ok /\ applied.mode \in Modes THEN applied.mode ELSE "none"

Ran(trigger, arg, found, pre, c, result, applied, action, prevented) ==
    [trigger |-> trigger, arg |-> arg, found |-> found, pre |-> pre,
     calls |-> c.calls, emitted |-> c.emitted, result |-> result,
     applied |-> applied, action |-> action, prevented |-> prevented,
     prevApplied |-> AppliedOk(last.applied)]

Finish(trigger, arg, found, c, result, applied, action, prevented) ==
    /\ win' = c.win
    /\ last' = Ran(trigger, arg, found, win, c, result, applied, action, prevented)
    /\ UNCHANGED <<running, hide_until, others>>

(***************************************************************************)
(* The handlers, as functions of the window they are given                 *)
(***************************************************************************)
\* variant: shows and focuses the window and emits the event, as the menu does
set_window_mode_LikeMenu(window, mode, F) ==
    LET r == apply_window_mode(set_focus(show(Ctx(window), F), F), mode, F)
    IN  [ctx |-> emit(r.ctx, mode, F), result |-> r.result]

\* #[tauri::command] set_window_mode
set_window_mode(window, mode, F) == apply_window_mode(Ctx(window), mode, F)

\* #[tauri::command] hide_window
hide_window(window, F) ==
    LET c1 == hide(Ctx(window), F)
    IN  [ctx |-> c1, result |-> IF "hide" \in F THEN Err("hide") ELSE Ok]

\* #[tauri::command] show_window
show_window(window, F) ==
    LET c1 == show(Ctx(window), F)
        c2 == set_focus(c1, F)
    IN  IF "show" \in F THEN [ctx |-> c1, result |-> Err("show")]
        ELSE [ctx |-> c2,
              result |-> IF "set_focus" \in F THEN Err("set_focus") ELSE Ok]

\* variant: the left click also applies the full mode, as the menu item does
on_tray_icon_event_ApplyFull(window, event, found, F) ==
    IF event = "LeftUp" /\ found
    THEN [ctx |-> apply_window_mode(set_focus(show(Ctx(window), F), F),
                                    "full", F).ctx,
          action |-> "Show"]
    ELSE [ctx |-> Ctx(window), action |-> "None"]

\* variant: the left click toggles as the shortcut does
on_tray_icon_event_Toggle(window, event, found, F) ==
    IF event = "LeftUp" /\ found
    THEN IF ~window.visible
         THEN [ctx |-> set_focus(show(Ctx(window), F), F), action |-> "Show"]
         ELSE IF window.focused
         THEN [ctx |-> hide(Ctx(window), F), action |-> "Hide"]
         ELSE [ctx |-> set_focus(Ctx(window), F), action |-> "Focus"]
    ELSE [ctx |-> Ctx(window), action |-> "None"]

\* the tray icon's click handler; found: get_webview_window("main") is Some
on_tray_icon_event(window, event, found, F) ==
    IF event = "LeftUp" /\ found
    THEN [ctx |-> set_focus(show(Ctx(window), F), F), action |-> "Show"]
    ELSE [ctx |-> Ctx(window), action |-> "None"]

\* variant: the arm returns at the first failing call
MenuModeArm_StopOnFailure(window, mode, F) ==
    LET c1 == show(Ctx(window), F)
        c2 == set_focus(c1, F)
        r  == apply_window_mode(c2, mode, F)
        stop(c) == [ctx |-> c, applied |-> NoApply, action |-> "None",
                    exit |-> FALSE]
    IN  IF "show" \in F THEN stop(c1)
        ELSE IF "set_focus" \in F THEN stop(c2)
        ELSE [ctx |-> IF r.result.kind = "Ok" THEN emit(r.ctx, mode, F) ELSE r.ctx,
              applied |-> [mode |-> mode, ok |-> r.result.kind = "Ok"],
              action |-> "None", exit |-> FALSE]

\* variant: every mode arm emits the payload of the first one
MenuModeArm_FullPayload(window, mode, F) ==
    LET c2 == set_focus(show(Ctx(window), F), F)
        r  == apply_window_mode(c2, mode, F)
    IN  [ctx |-> emit(r.ctx, "full", F),
         applied |-> [mode |-> mode, ok |-> r.result.kind = "Ok"],
         action |-> "None", exit |-> FALSE]

\* one of the three mode arms of the menu handler
MenuModeArm(window, mode, F) ==
    LET c2 == set_focus(show(Ctx(window), F), F)
        r  == apply_window_mode(c2, mode, F)
    IN  [ctx |-> emit(r.ctx, mode, F),
         applied |-> [mode |-> mode, ok |-> r.result.kind = "Ok"],
         action |-> "None", exit |-> FALSE]

\* variant: an id no arm names ends the process, as "quit" does
on_menu_event_OtherQuits(window, id, found, F) ==
    LET nothing == [ctx |-> Ctx(window), applied |-> NoApply,
                    action |-> "None", exit |-> FALSE]
    IN  CASE id = "show" /\ found ->
               [nothing EXCEPT !.ctx = set_focus(show(Ctx(window), F), F),
                               !.action = "Show"]
          [] id \in {"full", "widget", "floating"} /\ found ->
               MenuModeArm(window, id, F)
          [] id \in {"show", "full", "widget", "floating"} /\ ~found -> nothing
          [] OTHER -> [nothing EXCEPT !.exit = TRUE]

\* the tray menu's handler
on_menu_event(window, id, found, F) ==
    LET nothing == [ctx |-> Ctx(window), applied |-> NoApply,
                    action |-> "None", exit |-> FALSE]
    IN  CASE id = "show" ->
               IF found
               THEN [nothing EXCEPT !.ctx = set_focus(show(Ctx(window), F), F),
                                    !.action = "Show"]
               ELSE nothing
          [] id = "full" ->
               IF found THEN MenuModeArm(window, "full", F) ELSE nothing
          [] id = "widget" ->
               IF found THEN MenuModeArm(window, "widget", F) ELSE nothing
          [] id = "floating" ->
               IF found THEN MenuModeArm(window, "floating", F) ELSE nothing
          [] id = "quit" -> [nothing EXCEPT !.exit = TRUE]
          [] OTHER -> nothing

\* variant: a toggle right after a toggle is dropped (a debounce on the
\* history of triggers)
on_shortcut_Debounce(window, found, F) ==
    LET c0 == Read(Read(Ctx(window), "is_visible", F), "is_focused", F)
        vis == is_visible(c0, F)
        foc == is_focused(c0, F)
    IN  IF ~found THEN [ctx |-> Ctx(window), action |-> "None"]
        ELSE IF last.trigger = "shortcut" THEN [ctx |-> c0, action |-> "None"]
        ELSE IF ~vis THEN [ctx |-> set_focus(show(c0, F), F), action |-> "Show"]
        ELSE IF foc THEN [ctx |-> hide(c0, F), action |-> "Hide"]
        ELSE [ctx |-> set_focus(c0, F), action |-> "Focus"]

\* variant: the hide and focus branches are exchanged
on_shortcut_Swapped(window, found, F) ==
    LET c0 == Read(Read(Ctx(window), "is_visible", F), "is_focused", F)
        vis == is_visible(c0, F)
        foc == is_focused(c0, F)
    IN  IF ~found THEN [ctx |-> Ctx(window), action |-> "None"]
        ELSE IF ~vis THEN [ctx |-> set_focus(show(c0, F), F), action |-> "Show"]
        ELSE IF foc THEN [ctx |-> set_focus(c0, F), action |-> "Focus"]
        ELSE [ctx |-> hide(c0, F), action |-> "Hide"]

\* the global shortcut's handler
on_shortcut(window, found, F) ==
    LET c0 == Read(Read(Ctx(window), "is_visible", F), "is_focused", F)
        vis == is_visible(c0, F)
        foc == is_focused(c0, F)
    IN  IF ~found THEN [ctx |-> Ctx(window), action |-> "None"]
        ELSE IF ~vis THEN [ctx |-> set_focus(show(c0, F), F), action |-> "Show"]
        ELSE IF foc THEN [ctx |-> hide(c0, F), action |-> "Hide"]
        ELSE [ctx |-> set_focus(c0, F), action |-> "Focus"]

\* variant: hides the window but does not prevent the close
on_window_event_NoPrevent(window, F) ==
    [ctx |-> hide(Ctx(window), F), prevented |-> FALSE]

\* the window event handler, on WindowEvent::CloseRequested
on_window_event(window, F) ==
    [ctx |-> hide(Ctx(window), F), prevented |-> TRUE]

(***************************************************************************)
(* Settings and the settings file                                          *)
(***************************************************************************)
\* impl Default for Settings
SettingsDefault ==
    [pal_name |-> "Pal", owner_name |-> "", sounds_enabled |-> TRUE,
     notifications_enabled |-> TRUE, default_mode |-> "full", api_key |-> ""]

\* the Settings values the commands are given: the defaults, one that differs
\* from them in every field, and one whose default_mode names no mode
SettingsInputs ==
    {SettingsDefault,
     [pal_name |-> "Rex", owner_name |-> "Ann", sounds_enabled |-> FALSE,
      notifications_enabled |-> FALSE, default_mode |-> "widget",
      api_key |-> "sk-1"],
     [pal_name |-> "Rex", owner_name |-> "", sounds_enabled |-> TRUE,
      notifications_enabled |-> FALSE, default_mode |-> "compact",
      api_key |-> ""]}

\* JSON values, as the text spells them
JsonString(x) == [t |-> "string", v |-> x]

JsonBool(b) == [t |-> "bool", v |-> IF b THEN "true" ELSE "false"]

\* a JSON text: the members of one object in order, and whether the object
\* is closed
JsonText(pairs, complete) == [pairs |-> pairs, complete |-> complete]

\* serde_json::to_string_pretty of a Settings: its fields in declaration order
to_string_pretty(settings) ==
    JsonText(<< <<"pal_name", JsonString(settings.pal_name)>>,
                <<"owner_name", JsonString(settings.owner_name)>>,
                <<"sounds_enabled", JsonBool(settings.sounds_enabled)>>,
                <<"notifications_enabled", JsonBool(settings.notifications_enabled)>>,
                <<"default_mode", JsonString(settings.default_mode)>>,
                <<"api_key", JsonString(settings.api_key)>> >>, TRUE)

\* serde_json::from_str::<Settings>: the text must be a closed object holding
\* each field once with a value of the field's type; other members are ignored
from_str(text) ==
    LET At(k) == {i \in DOMAIN text.pairs : text.pairs[i][1] = k}
        Val(k) == text.pairs[CHOOSE i \in At(k) : TRUE][2]
        IsString(k) == Cardinality(At(k)) = 1 /\ Val(k).t = "string"
        IsBool(k) == /\ Cardinality(At(k)) = 1
                     /\ Val(k).t = "bool"
                     /\ Val(k).v \in {"true", "false"}
    IN  IF /\ text.complete
           /\ IsString("pal_name") /\ IsString("owner_name")
           /\ IsBool("sounds_enabled") /\ IsBool("notifications_enabled")
           /\ IsString("default_mode") /\ IsString("api_key")
        THEN [ok |-> TRUE,
              value |-> [pal_name |-> Val("pal_name").v,
                         owner_name |-> Val("owner_name").v,
                         sounds_enabled |-> Val("sounds_enabled").v = "true",
                         notifications_enabled |->
                             Val("notifications_enabled").v = "true",
                         default_mode |-> Val("default_mode").v,
                         api_key |-> Val("api_key").v]]
        ELSE [ok |-> FALSE, value |-> SettingsDefault]

\* the file at get_config_path()
NoFile == [kind |-> "absent"]

UnreadableFile == [kind |-> "unreadable"]

TextFile(text) == [kind |-> "text", text |-> text]

\* the files the program can find at start: none, an unreadable one, a saved
\* one, and texts that were cut short or edited by hand
InitFiles ==
    {NoFile, UnreadableFile}
    \cup {TextFile(to_string_pretty(x)) : x \in SettingsInputs}
    \cup {TextFile(JsonText(SubSeq(to_string_pretty(SettingsDefault).pairs, 1, 3),
                            FALSE)),
          TextFile(JsonText(SubSeq(to_string_pretty(SettingsDefault).pairs, 1, 5),
                            TRUE)),
          TextFile(JsonText(<< <<"pal_name", JsonString("Rex")>>,
                               <<"owner_name", JsonString("Ann")>>,
                               <<"sounds_enabled", JsonString("yes")>>,
                               <<"notifications_enabled", JsonBool(TRUE)>>,
                               <<"default_mode", JsonString("widget")>>,
                               <<"api_key", JsonString("sk-1")>> >>, TRUE)),
          TextFile(JsonText(<< <<"theme", JsonString("dark")>> >>
                            \o to_string_pretty(SettingsDefault).pairs, TRUE))}

\* variant: a text that does not parse is read member by member, the members
\* that are missing taking their defaults
load_settings_from_file_Lenient(f, F) ==
    LET At(k) == {i \in DOMAIN f.text.pairs : f.text.pairs[i][1] = k}
        Str(k, d) == IF At(k) = {} THEN d
                     ELSE f.text.pairs[CHOOSE i \in At(k) : TRUE][2].v
    IN  IF f.kind = "absent" THEN SettingsDefault
        ELSE IF f.kind = "unreadable" \/ "read_to_string" \in F THEN SettingsDefault
        ELSE IF from_str(f.text).ok THEN from_str(f.text).value
        ELSE [SettingsDefault EXCEPT !.pal_name = Str("pal_name", @),
                                     !.owner_name = Str("owner_name", @)]

\* load_settings_from_file
load_settings_from_file(f, F) ==
    IF f.kind = "absent" THEN SettingsDefault
    ELSE IF f.kind = "unreadable" \/ "read_to_string" \in F THEN SettingsDefault
    ELSE IF from_str(f.text).ok THEN from_str(f.text).value
    ELSE SettingsDefault

\* the calls of save_settings_to_file that can fail
SaveCalls == {"create_dir_all", "to_string_pretty", "write"}

\* what a failed fs::write can leave: the file as it was (cut = -1), or the
\* first cut members of the new text, the object not closed
WriteCuts(F) ==
    IF "write" \in F /\ F \cap {"create_dir_all", "to_string_pretty"} = {}
    THEN -1..6 ELSE {-1}

\* variant: an empty api_key keeps the key the file holds
save_settings_to_file_Merge(f, settings, F, cut) ==
    LET old == load_settings_from_file(f, {})
        merged == IF settings.api_key = ""
                  THEN [settings EXCEPT !.api_key = old.api_key] ELSE settings
        content == to_string_pretty(merged)
    IN  IF "create_dir_all" \in F THEN [file |-> f, result |-> Err("create_dir_all")]
        ELSE IF "to_string_pretty" \in F
             THEN [file |-> f, result |-> Err("to_string_pretty")]
        ELSE IF "write" \in F
             THEN [file |-> IF cut < 0 THEN f
                            ELSE TextFile(JsonText(SubSeq(content.pairs, 1, cut),
                                                   FALSE)),
                   result |-> Err("write")]
        ELSE [file |-> TextFile(content), result |-> Ok]

\* save_settings_to_file
save_settings_to_file(f, settings, F, cut) ==
    LET content == to_string_pretty(settings)
    IN  IF "create_dir_all" \in F THEN [file |-> f, result |-> Err("create_dir_all")]
        ELSE IF "to_string_pretty" \in F
             THEN [file |-> f, result |-> Err("to_string_pretty")]
        ELSE IF "write" \in F
             THEN [file |-> IF cut < 0 THEN f
                            ELSE TextFile(JsonText(SubSeq(content.pairs, 1, cut),
                                                   FALSE)),
                   result |-> Err("write")]
        ELSE [file |-> TextFile(content), result |-> Ok]

\* #[tauri::command] load_settings
load_settings(f, F) == load_settings_from_file(f, F)

\* #[tauri::command] save_settings
save_settings(f, settings, F, cut) == save_settings_to_file(f, settings, F, cut)

\* the record of a settings command: what it was given, what it returned,
\* what a load returned from the file before it, and the same of the command
\* before it
NoCommand == [op |-> "none"]

Command(op, arg, result, returned, readFailed) ==
    [op |-> op, arg |-> arg, result |-> result, returned |-> returned,
     readFailed |-> readFailed,
     persisted |-> load_settings_from_file(file, {}),
     prev |-> IF slast.op = "none" THEN NoCommand
              ELSE [op |-> slast.op, arg |-> slast.arg,
                    ok |-> slast.result.kind = "Ok",
                    persisted |-> slast.persisted]]

(***************************************************************************)
(* Initial state and actions.  An action runs its handler once and binds   *)
(* what the handler returns to r.                                          *)
(***************************************************************************)
\* number of set_window_mode commands that can be in flight together
MaxTasks == 2

\* the tasks in flight, each with the mode it was given and the number of
\* the mutation it issues next: none at start
NoTasks == <<>>

NoRun ==
    [trigger |-> "none", arg |-> "", found |-> FALSE, pre |-> win,
     calls |-> <<>>, emitted |-> <<>>, result |-> Unit, applied |-> NoApply,
     action |-> "None", prevented |-> FALSE, prevApplied |-> "none"]

Init ==
    /\ win \in WindowStates
    /\ running = TRUE
    /\ hide_until = "None"
    /\ last = NoRun
    /\ failedBefore = "none"
    /\ file = NoFile
    /\ slast = NoCommand
    /\ tasks = NoTasks

InvokeSetWindowMode ==
    /\ running
    /\ \E mode \in ModeStrings :
       \E F \in FailSets(IF mode \in Modes THEN MutationCalls ELSE {}) :
         \E r \in {set_window_mode(win, mode, F)} :
             Finish("set_window_mode", mode, TRUE, r.ctx, r.result,
                    [mode |-> mode, ok |-> r.result.kind = "Ok"], "None", FALSE)

InvokeHideWindow ==
    /\ running
    /\ \E F \in FailSets({"hide"}) :
         \E r \in {hide_window(win, F)} :
             Finish("hide_window", "", TRUE, r.ctx, r.result, NoApply, "None", FALSE)

InvokeShowWindow ==
    /\ running
    /\ \E F \in FailSets(ShowCalls) :
         \E r \in {show_window(win, F)} :
             Finish("show_window", "", TRUE, r.ctx, r.result, NoApply, "None", FALSE)

TrayIconEvent ==
    /\ running
    /\ \E event \in TrayEvents, found \in BOOLEAN :
       \E F \in FailSets(IF event = "LeftUp" /\ found THEN ShowCalls ELSE {}) :
         \E r \in {on_tray_icon_event(win, event, found, F)} :
             Finish("tray", event, found, r.ctx, Unit, NoApply, r.action, FALSE)

MenuEvent ==
    /\ running
    /\ \E id \in MenuIds \ {"quit"}, found \in BOOLEAN :
       \E F \in FailSets(MenuCalls(id, found)) :
         \E r \in {on_menu_event(win, id, found, F)} :
             /\ win' = r.ctx.win
             /\ last' = Ran("menu", id, found, win, r.ctx, Unit, r.applied,
                            r.action, FALSE)
             /\ running' = ~r.exit
             /\ UNCHANGED <<hide_until, others>>

\* the "quit" item: std::process::exit(0)
MenuQuit ==
    /\ running
    /\ on_menu_event(win, "quit", TRUE, {}).exit
    /\ running' = FALSE
    /\ last' = Ran("menu", "quit", FALSE, win, Ctx(win), Unit, NoApply, "None", FALSE)
    /\ UNCHANGED <<win, hide_until, others>>

ShortcutPressed ==
    /\ running
    /\ \E found \in BOOLEAN :
       \E F \in FailSets(ShortcutCalls(found)) :
         \E r \in {on_shortcut(win, found, F)} :
             Finish("shortcut", "", found, r.ctx, Unit, NoApply, r.action, FALSE)

\* a close request that is not prevented closes the only window, which ends
\* the run loop and with it the process
CloseRequested ==
    /\ running
    /\ \E F \in FailSets({"hide"}) :
         \E r \in {on_window_event(win, F)} :
             /\ win' = r.ctx.win
             /\ last' = Ran("close", "", TRUE, win, r.ctx, Unit, NoApply, "None",
                            r.prevented)
             /\ running' = r.prevented
             /\ UNCHANGED <<hide_until, others>>

Next ==
    \/ InvokeSetWindowMode
    \/ InvokeHideWindow
    \/ InvokeShowWindow
    \/ TrayIconEvent
    \/ MenuEvent
    \/ MenuQuit
    \/ ShortcutPressed
    \/ CloseRequested

Spec == Init /\ [][Next]_vars

(***************************************************************************)
(* Retries: set_window_mode invoked again and again, the failure of the    *)
(* invocation before the last one being remembered                         *)
(***************************************************************************)
RetrySetWindowMode ==
    /\ running
    /\ \E mode \in Modes, F \in FailSets(MutationCalls) :
         \E r \in {set_window_mode(win, mode, F)} :
             /\ win' = r.ctx.win
             /\ last' = Ran("set_window_mode", mode, TRUE, win, r.ctx, r.result,
                            [mode |-> mode, ok |-> r.result.kind = "Ok"],
                            "None", FALSE)
             /\ failedBefore' = AppliedFailed(last.applied)
             /\ UNCHANGED <<running, hide_until, file, slast, tasks>>

NextRetry == RetrySetWindowMode

SpecRetry == Init /\ [][NextRetry]_vars

(***************************************************************************)
(* The settings commands                                                   *)
(***************************************************************************)
\* the window plays no part in the settings commands
InitSettings ==
    /\ win = [w |-> 400, h |-> 500, always_on_top |-> FALSE, decorated |-> FALSE,
              resizable |-> TRUE, visible |-> TRUE, focused |-> TRUE]
    /\ running = TRUE
    /\ hide_until = "None"
    /\ last = NoRun
    /\ failedBefore = "none"
    /\ file \in InitFiles
    /\ slast = NoCommand
    /\ tasks = NoTasks

InvokeLoadSettings ==
    /\ running
    /\ \E F \in FailSets({"read_to_string"}) :
         /\ slast' = Command("load", SettingsDefault, Ok, load_settings(file, F),
                             "read_to_string" \in F)
         /\ UNCHANGED <<win, running, hide_until, last, failedBefore, file, tasks>>

InvokeSaveSettings ==
    /\ running
    /\ \E settings \in SettingsInputs, F \in FailSets(SaveCalls) :
       \E cut \in WriteCuts(F) :
         \E r \in {save_settings(file, settings, F, cut)} :
             /\ file' = r.file
             /\ slast' = Command("save", settings, r.result, SettingsDefault, FALSE)
             /\ UNCHANGED <<win, running, hide_until, last, failedBefore, tasks>>

NextSettings ==
    \/ InvokeLoadSettings
    \/ InvokeSaveSettings

SpecSettings == InitSettings /\ [][NextSettings]_vars

(***************************************************************************)
(* The async commands next to the handlers of the event loop.  An async   *)
(* command runs as a task of the async runtime, off the thread that owns   *)
(* the window: each of its window calls reaches the window on its own,     *)
(* and calls of other tasks and whole handlers of the event loop can come  *)
(* in between.  Every call succeeds here.                                  *)
(***************************************************************************)
\* the values apply_window_mode gives the window for a mode
ModeValues(mode) ==
    apply_window_mode(Ctx(CHOOSE w \in WindowStates : TRUE), mode, {}).ctx.win

\* the k-th window call of apply_window_mode(mode)
Mutation(c, mode, k) ==
    CASE k = 1 -> set_size(c, ModeValues(mode).w, ModeValues(mode).h, {})
      [] k = 2 -> set_always_on_top(c, ModeValues(mode).always_on_top, {})
      [] k = 3 -> set_decorations(c, ModeValues(mode).decorated, {})
      [] k = 4 -> set_resizable(c, ModeValues(mode).resizable, {})

\* the window in one of the modes, as a mode item of the menu leaves it
InitConc ==
    /\ win \in {on_menu_event(w, m, TRUE, {}).ctx.win :
                   w \in WindowStates, m \in Modes}
    /\ running = TRUE
    /\ hide_until = "None"
    /\ last = NoRun
    /\ failedBefore = "none"
    /\ file = NoFile
    /\ slast = NoCommand
    /\ tasks = NoTasks

\* the frontend invokes set_window_mode: a task starts
StartSetWindowMode ==
    /\ running
    /\ Len(tasks) < MaxTasks
    /\ \E mode \in Modes :
         /\ tasks' = Append(tasks, [mode |-> mode, pc |-> 1])
         /\ UNCHANGED <<win, running, hide_until, last, failedBefore, file, slast>>

\* a task issues its next window call; after the fourth it returns Ok
StepSetWindowMode ==
    /\ running
    /\ \E t \in DOMAIN tasks :
         /\ win' = Mutation(Ctx(win), tasks[t].mode, tasks[t].pc).win
         /\ tasks' = IF tasks[t].pc = 4
                      THEN SubSeq(tasks, 1, t - 1) \o SubSeq(tasks, t + 1, Len(tasks))
                      ELSE [tasks EXCEPT ![t].pc = @ + 1]
         /\ UNCHANGED <<running, hide_until, last, failedBefore, file, slast>>

\* a mode item of the menu, handled in one piece on the event loop
MenuModeOnEventLoop ==
    /\ running
    /\ \E id \in Modes :
         \E r \in {on_menu_event(win, id, TRUE, {})} :
             /\ win' = r.ctx.win
             /\ last' = Ran("menu", id, TRUE, win, r.ctx, Unit, r.applied,
                            r.action, FALSE)
             /\ UNCHANGED <<running, hide_until, others>>

NextConc ==
    \/ StartSetWindowMode
    \/ StepSetWindowMode
    \/ MenuModeOnEventLoop

SpecConc == InitConc /\ [][NextConc]_vars

TypeOK ==
    /\ win \in WindowStates
    /\ running \in BOOLEAN
    /\ last.pre \in WindowStates

(***************************************************************************)
(* Vocabulary of the properties                                            *)
(***************************************************************************)
\* the four attributes a mode profile fixes
Attrs(w) == <<w.w, w.h, w.always_on_top, w.decorated, w.resizable>>

\* the profile table: width, height, always_on_top, decorated, resizable
ProfileOf(m) ==
    CASE m = "full"     -> <<400, 500, FALSE, FALSE, TRUE>>
      [] m = "widget"   -> <<220, 180, TRUE, FALSE, FALSE>>
      [] m = "floating" -> <<150, 100, TRUE, FALSE, FALSE>>

\* the names of the calls the last handler issued, in order
CallNames == [i \in DOMAIN last.calls |-> last.calls[i][1]]

Issued(name) == \E i \in DOMAIN last.calls : last.calls[i][1] = name

Succeeded(name) == \E i \in DOMAIN last.calls : last.calls[i] = <<name, TRUE>>

Failed(name) == \E i \in DOMAIN last.calls : last.calls[i] = <<name, FALSE>>

AllSucceeded == \A i \in DOMAIN last.calls : last.calls[i][2]

MutationsSucceeded == \A name \in MutationCalls : Succeeded(name)

TheReads == <<"is_visible", "is_focused">>

\* the window calls of each toggle action
ActionCalls(action) ==
    CASE action = "Show"  -> <<"show", "set_focus">>
      [] action = "Hide"  -> <<"hide">>
      [] action = "Focus" -> <<"set_focus">>
      [] OTHER            -> <<>>

(***************************************************************************)
(* Properties                                                              *)
(***************************************************************************)

\* C1: whenever a handler called apply_window_mode(m) for a known mode m and all
\* four window mutations succeeded, the call returned Ok and the window carries
\* exactly the profile of m, whatever its attributes were before.
C1_ApplyMatchesProfile ==
    \A m \in Modes :
        (last.applied.mode = m /\ MutationsSucceeded)
            => /\ last.applied.ok
               /\ Attrs(win) = ProfileOf(m)
               /\ (last.trigger = "set_window_mode" => last.result = Ok)

\* C1 witness: a successful set_window_mode("widget") on a window that had
\* none of the widget profile's size, stacking, decoration or resizability
C1_Witness ==
    /\ last.trigger = "set_window_mode" /\ last.arg = "widget"
    /\ MutationsSucceeded
    /\ last.pre.w = 400 /\ ~last.pre.always_on_top
    /\ last.pre.decorated /\ last.pre.resizable
    /\ Attrs(win) = ProfileOf("widget")

\* C2: set_window_mode with a mode string outside {full, widget, floating}
\* returns the unknown-mode error, issues no window call and leaves the window
\* as it was.
C2_UnknownModeRejected ==
    (last.trigger = "set_window_mode" /\ last.arg \notin Modes)
        => /\ last.result = Err("Unknown mode")
           /\ last.calls = <<>>
           /\ last.emitted = <<>>
           /\ win = last.pre

\* C2 witness: set_window_mode("compact") has run and returned the error
C2_Witness ==
    /\ last.trigger = "set_window_mode" /\ last.arg = "compact"
    /\ last.result.kind = "Err"

\* C3: when the shortcut fires, the main window exists and every window call
\* succeeds, the action is decided by the (visible, focused) pair alone: hidden
\* gives Show (then visible and focused), visible and focused gives Hide (then
\* hidden), visible and unfocused gives Focus (still visible, now focused).
C3_ToggleTable ==
    (last.trigger = "shortcut" /\ last.found /\ AllSucceeded)
        => /\ CallNames = TheReads \o ActionCalls(last.action)
           /\ ~last.pre.visible
                => last.action = "Show" /\ win.visible /\ win.focused
           /\ (last.pre.visible /\ last.pre.focused)
                => last.action = "Hide" /\ ~win.visible
           /\ (last.pre.visible /\ ~last.pre.focused)
                => last.action = "Focus" /\ win.visible /\ win.focused

\* C3 witness: the shortcut fired on a visible, unfocused window and focused it
C3_Witness ==
    /\ last.trigger = "shortcut" /\ last.found /\ AllSucceeded
    /\ last.pre.visible /\ ~last.pre.focused
    /\ last.action = "Focus" /\ win.focused

\* C4: a mode item of the menu emits mode-changed only if its
\* apply_window_mode call succeeded.
C4_EmitOnlyAfterApplyOk ==
    (last.trigger = "menu" /\ last.arg \in Modes /\ last.emitted # <<>>)
        => last.applied.ok

\* C5: selecting the menu item m of a known mode, the main window existing and
\* every window call succeeding, leaves the window visible, focused and with
\* the profile of m, and emits exactly one mode-changed event, with payload m.
C5_MenuModeSelection ==
    \A m \in Modes :
        (last.trigger = "menu" /\ last.arg = m /\ last.found /\ AllSucceeded)
            => /\ win.visible /\ win.focused
               /\ Attrs(win) = ProfileOf(m)
               /\ last.emitted = <<m>>

\* C5 witness: "floating" selected while the window was hidden and unfocused
C5_Witness ==
    /\ last.trigger = "menu" /\ last.arg = "floating" /\ last.found /\ AllSucceeded
    /\ ~last.pre.visible /\ ~last.pre.focused
    /\ win.visible /\ last.emitted = <<"floating">>

\* C6 (as stated): after every close request the close is suppressed, the
\* process runs on and the window is hidden, also when hide fails.
C6_CloseAlwaysHides ==
    last.trigger = "close" => last.prevented /\ running /\ ~win.visible

\* C6 (amended): after every close request the close is suppressed and the
\* process runs on; the window is hidden if the hide call succeeded, and is
\* left exactly as it was if the hide call failed.
C6_CloseIntercepted ==
    last.trigger = "close"
        => /\ last.prevented
           /\ running
           /\ CallNames = <<"hide">>
           /\ Succeeded("hide") => ~win.visible
           /\ Failed("hide") => win = last.pre

\* C6 witness: a close request on a visible window hid it and the process runs
C6_Witness ==
    /\ last.trigger = "close" /\ last.pre.visible /\ Succeeded("hide")
    /\ ~win.visible /\ running

\* C7 (as stated): a tray left-click takes the same action and ends in the
\* same window state as the shortcut would from the same window.
C7_TraySameAsShortcut ==
    (last.trigger = "tray" /\ last.arg = "LeftUp" /\ last.found /\ AllSucceeded)
        => /\ last.action = on_shortcut(last.pre, TRUE, {}).action
           /\ win = on_shortcut(last.pre, TRUE, {}).ctx.win

\* C7 (amended): a tray left-click always takes the Show action (show, then
\* set focus) and leaves the window visible and focused; its final window
\* state equals the shortcut's except on a visible and focused window, which
\* the shortcut hides and the left-click leaves visible and focused.
C7_TrayAlwaysShows ==
    (last.trigger = "tray" /\ last.arg = "LeftUp" /\ last.found /\ AllSucceeded)
        => /\ last.action = "Show"
           /\ CallNames = ActionCalls("Show")
           /\ win.visible /\ win.focused
           /\ ~(last.pre.visible /\ last.pre.focused)
                => win = on_shortcut(last.pre, TRUE, {}).ctx.win
           /\ (last.pre.visible /\ last.pre.focused)
                => ~on_shortcut(last.pre, TRUE, {}).ctx.win.visible

\* C7 witness: a left-click on a visible and focused window left it visible
C7_Witness ==
    /\ last.trigger = "tray" /\ last.arg = "LeftUp" /\ last.found /\ AllSucceeded
    /\ last.pre.visible /\ last.pre.focused
    /\ win.visible /\ win.focused

\* C8 (as stated): a successful set_window_mode(m) on a hidden window leaves
\* it visible and focused with the profile of m and emits one mode-changed(m).
C8_SetModeLikeMenu ==
    \A m \in Modes :
        (last.trigger = "set_window_mode" /\ last.arg = m /\ last.result = Ok
         /\ ~last.pre.visible)
            => /\ win.visible /\ win.focused
               /\ Attrs(win) = ProfileOf(m)
               /\ last.emitted = <<m>>

\* C8 (amended): a successful set_window_mode(m) only applies the profile of
\* m: it issues the four mutations and nothing else, leaves visibility and
\* focus as they were (a hidden window stays hidden) and emits no event.
C8_SetModeOnlyApplies ==
    \A m \in Modes :
        (last.trigger = "set_window_mode" /\ last.arg = m /\ last.result = Ok)
            => /\ Attrs(win) = ProfileOf(m)
               /\ win.visible = last.pre.visible
               /\ win.focused = last.pre.focused
               /\ last.emitted = <<>>
               /\ CallNames = <<"set_size", "set_always_on_top",
                                "set_decorations", "set_resizable">>

\* C8 witness: set_window_mode("full") succeeded on a hidden window, which
\* has the full profile and is still hidden
C8_Witness ==
    /\ last.trigger = "set_window_mode" /\ last.arg = "full" /\ last.result = Ok
    /\ ~last.pre.visible /\ ~win.visible
    /\ Attrs(last.pre) # ProfileOf("full")
    /\ Attrs(win) = ProfileOf("full")

\* C9: when apply_window_mode(m) succeeds right after a successful
\* apply_window_mode(m), the second call leaves size, always_on_top, decorated
\* and resizable as the first one left them.
C9_ApplyIdempotent ==
    \A m \in Modes :
        (last.applied = [mode |-> m, ok |-> TRUE] /\ last.prevApplied = m)
            => Attrs(win) = Attrs(last.pre)

\* C9 witness: widget applied twice in succession, both calls succeeding
C9_Witness ==
    /\ last.applied = [mode |-> "widget", ok |-> TRUE]
    /\ last.prevApplied = "widget"
    /\ last.trigger = "set_window_mode"

\* C10 (as stated): when a read of visibility or of focus fails as the
\* shortcut fires, no error is propagated and the action is Show.
C10_ReadFailureGivesShow ==
    (last.trigger = "shortcut" /\ last.found
     /\ (Failed("is_visible") \/ Failed("is_focused")))
        => last.result = Unit /\ last.action = "Show"

\* C10 (amended): a failed read counts as false and no error is propagated; a
\* failed visibility read gives Show; a failed focus read gives Show on a
\* hidden window and Focus (set focus only) on a window read as visible; a
\* failed read never gives Hide.
C10_ReadFailureDegrades ==
    (last.trigger = "shortcut" /\ last.found
     /\ (Failed("is_visible") \/ Failed("is_focused")))
        => /\ last.result = Unit
           /\ last.action # "Hide" /\ ~Issued("hide")
           /\ CallNames = TheReads \o ActionCalls(last.action)
           /\ Failed("is_visible") => last.action = "Show"
           /\ (Failed("is_focused") /\ ~last.pre.visible) => last.action = "Show"
           /\ (Failed("is_focused") /\ Succeeded("is_visible") /\ last.pre.visible)
                => last.action = "Focus"

\* C10 witness: the focus read failed on a visible and focused window, and
\* the handler only set the focus
C10_Witness ==
    /\ last.trigger = "shortcut" /\ last.found
    /\ Failed("is_focused") /\ Succeeded("is_visible")
    /\ last.pre.visible /\ last.pre.focused
    /\ last.action = "Focus" /\ win.visible

(***************************************************************************)
(* Vocabulary of the properties on the order of the mutations              *)
(***************************************************************************)
MutationOrder == <<"set_size", "set_always_on_top", "set_decorations", "set_resizable">>

IsMutation(call) == call[1] \in MutationCalls

\* the mutation calls the last handler issued, in order, with their outcomes
MutationTrace == SelectSeq(last.calls, IsMutation)

\* the part of the window the i-th mutation sets
Part(w, i) ==
    CASE i = 1 -> <<w.w, w.h>>
      [] i = 2 -> <<w.always_on_top>>
      [] i = 3 -> <<w.decorated>>
      [] i = 4 -> <<w.resizable>>

\* the value the profile of m gives that part
ProfilePart(m, i) ==
    CASE i = 1 -> <<ProfileOf(m)[1], ProfileOf(m)[2]>>
      [] i = 2 -> <<ProfileOf(m)[3]>>
      [] i = 3 -> <<ProfileOf(m)[4]>>
      [] i = 4 -> <<ProfileOf(m)[5]>>

\* the toggle rule as a table of the two values read
Decision(visible, focused) ==
    IF ~visible THEN "Show" ELSE IF focused THEN "Hide" ELSE "Focus"

\* C11: the process has terminated only if the last trigger handled was the
\* quit menu item; the quit item terminates it without issuing a window call.
C11_OnlyQuitTerminates ==
    /\ ~running => (last.trigger = "menu" /\ last.arg = "quit")
    /\ (last.trigger = "menu" /\ last.arg = "quit")
         => (~running /\ last.calls = <<>> /\ win = last.pre)

\* C11 witness: the quit item was selected and the process has terminated
C11_Witness ==
    /\ ~running
    /\ last.trigger = "menu" /\ last.arg = "quit"

\* C14: an apply_window_mode call for a known mode issues its mutations in
\* the order set_size, set_always_on_top, set_decorations, set_resizable; if
\* the k-th fails, the call fails with that call's error, mutations 1..k-1
\* stay applied, and the k-th and later parts of the window are untouched,
\* the later mutations never being attempted.
C14_FixedOrderFailFast ==
    \A m \in Modes :
        last.applied.mode = m
            => LET n == Len(MutationTrace)
               IN  /\ n \in 1..4
                   /\ \A i \in 1..n : MutationTrace[i][1] = MutationOrder[i]
                   /\ \A i \in 1..(n - 1) : MutationTrace[i][2]
                   /\ MutationTrace[n][2] => (n = 4 /\ last.applied.ok)
                   /\ ~MutationTrace[n][2]
                        => /\ ~last.applied.ok
                           /\ last.trigger = "set_window_mode"
                                => last.result = Err(MutationOrder[n])
                           /\ \A i \in 1..(n - 1) :
                                Part(win, i) = ProfilePart(m, i)
                           /\ \A i \in n..4 : Part(win, i) = Part(last.pre, i)

\* C14 witness: set_window_mode("widget") failed at set_decorations on a
\* resizable 400x500 window: resized, still resizable
C14_Witness ==
    /\ last.trigger = "set_window_mode" /\ last.arg = "widget"
    /\ Failed("set_decorations")
    /\ last.pre.w = 400 /\ last.pre.resizable /\ ~last.pre.always_on_top
    /\ win.w = 220 /\ win.always_on_top /\ win.resizable

\* C15: a fully successful apply_window_mode(m) right after an
\* apply_window_mode(m) that failed at one of its mutations leaves the window
\* with exactly the profile of m.
C15_RetryConverges ==
    \A m \in Modes :
        (last.applied = [mode |-> m, ok |-> TRUE] /\ failedBefore = m)
            => Attrs(win) = ProfileOf(m)

\* C15 witness: full is applied with success on the mixed state (400 wide,
\* always on top) that a failed apply of full left behind
C15_Witness ==
    /\ last.applied = [mode |-> "full", ok |-> TRUE]
    /\ failedBefore = "full"
    /\ last.pre.w = 400 /\ last.pre.always_on_top
    /\ Attrs(win) = ProfileOf("full")

\* C17: show_window, hide_window, the "show" menu item, the tray click, the
\* shortcut and the close request leave size, always_on_top, decorated and
\* resizable as they were and emit no event.
C17_NoModeChange ==
    (\/ last.trigger \in {"show_window", "hide_window", "tray", "shortcut", "close"}
     \/ (last.trigger = "menu" /\ last.arg = "show"))
        => /\ Attrs(win) = Attrs(last.pre)
           /\ last.emitted = <<>>
           /\ ~\E i \in DOMAIN last.calls : IsMutation(last.calls[i])

\* C17 witness: show_window made a hidden window visible whose attributes are
\* those of no mode, and they are unchanged
C17_Witness ==
    /\ last.trigger = "show_window" /\ last.result = Ok
    /\ ~last.pre.visible /\ win.visible
    /\ win.decorated /\ Attrs(win) = Attrs(last.pre)

\* C18: in the menu, tray and shortcut handlers a failing window call neither
\* ends the process nor stops the handler: a mode item always issues show,
\* set_focus, the mutations of apply_window_mode up to its first failure, and
\* emit; the "show" item and the tray click always issue show and set_focus;
\* the shortcut always issues both reads and the calls of its action.
C18_HandlersContinue ==
    /\ (last.trigger = "menu" /\ last.arg \in Modes /\ last.found)
         => /\ running
            /\ last.applied.mode = last.arg
            /\ Len(MutationTrace) >= 1
            /\ CallNames = <<"show", "set_focus">>
                             \o [i \in DOMAIN MutationTrace |-> MutationTrace[i][1]]
                             \o <<"emit">>
    /\ (last.trigger = "menu" /\ last.arg = "show" /\ last.found)
         => (running /\ CallNames = <<"show", "set_focus">>)
    /\ (last.trigger = "tray" /\ last.arg = "LeftUp" /\ last.found)
         => (running /\ CallNames = <<"show", "set_focus">>)
    /\ (last.trigger = "shortcut" /\ last.found)
         => /\ running
            /\ last.action \in {"Show", "Hide", "Focus"}
            /\ CallNames = TheReads \o ActionCalls(last.action)

\* C18 witness: show failed in the "widget" item, and the handler went on to
\* set the focus, apply the mode and emit
C18_Witness ==
    /\ last.trigger = "menu" /\ last.arg = "widget" /\ last.found
    /\ Failed("show") /\ Succeeded("set_focus")
    /\ MutationsSucceeded /\ Succeeded("emit")
    /\ ~win.visible /\ running

\* C20: hide_until is None in every reachable state, and the action of the
\* shortcut handler is the table's value for the two values it read, whatever
\* triggers were handled before.
C20_HideTimerDead ==
    /\ hide_until = "None"
    /\ (last.trigger = "shortcut" /\ last.found)
         => last.action = Decision(last.pre.visible /\ ~Failed("is_visible"),
                                   last.pre.focused /\ ~Failed("is_focused"))

\* C20 witness: the shortcut hid a window that an earlier trigger had put in
\* widget mode, hide_until still being None
C20_Witness ==
    /\ last.trigger = "shortcut" /\ last.found /\ last.action = "Hide"
    /\ last.prevApplied = "widget"
    /\ hide_until = "None"

\* the defaults of the settings, field by field
DefaultsAsDocumented ==
    [pal_name |-> "Pal", owner_name |-> "", sounds_enabled |-> TRUE,
     notifications_enabled |-> TRUE, default_mode |-> "full", api_key |-> ""]

\* the file cannot be parsed as a Settings value
Unparsable(f) ==
    f.kind = "text" /\ ~from_str(f.text).ok

\* C12: load_settings never returns an error, and when the file is absent,
\* cannot be read or cannot be parsed it returns exactly the defaults.
C12_LoadNeverFails ==
    slast.op = "load"
        => /\ slast.result = Ok
           /\ (file.kind \in {"absent", "unreadable"} \/ slast.readFailed
               \/ Unparsable(file))
                => slast.returned = DefaultsAsDocumented

\* C12 witness: a failed write left the first three members of a text that
\* names the pal Rex, and load returned the defaults
C12_Witness ==
    /\ slast.op = "load" /\ ~slast.readFailed
    /\ file.kind = "text" /\ ~file.text.complete /\ Len(file.text.pairs) = 3
    /\ file.text.pairs[1][2].v = "Rex"
    /\ slast.returned = DefaultsAsDocumented

\* C13: a save given a default_mode that names no mode is refused, and no
\* load returns, and no file holds, a default_mode that names no mode.
C13_DefaultModeValid ==
    /\ (slast.op = "save" /\ slast.arg.default_mode \notin Modes)
         => slast.result.kind = "Err"
    /\ slast.op = "load" => slast.returned.default_mode \in Modes
    /\ slast.op # "none" => load_settings_from_file(file, {}).default_mode \in Modes

\* C16: whenever no set_window_mode command is in flight, the window has the
\* profile of one mode (every window call succeeds in this specification).
C16_NoMixedProfile ==
    tasks = <<>>
        => \E m \in Modes : Attrs(win) = ProfileOf(m)

\* C19 (as stated): after a successful save the next load returns the saved
\* settings, and after a failed save the next load returns the settings
\* persisted before it or the defaults.
C19_SaveThenLoad ==
    /\ (slast.op = "load" /\ slast.prev.op = "save" /\ slast.prev.ok)
         => slast.returned = slast.prev.arg
    /\ (slast.op = "load" /\ slast.prev.op = "save" /\ ~slast.prev.ok)
         => slast.returned \in {slast.prev.persisted, DefaultsAsDocumented}

\* C19 (amended): a successful save leaves exactly the text of the settings it
\* was given in the file; the next load returns them in all six fields if it
\* can read the file and the defaults if it cannot; after a failed save the
\* next load returns the settings persisted before it or the defaults.
C19_SaveReplacesWholesale ==
    /\ (slast.op = "save" /\ slast.result = Ok)
         => /\ file = TextFile(to_string_pretty(slast.arg))
            /\ load_settings_from_file(file, {}) = slast.arg
    /\ (slast.op = "load" /\ slast.prev.op = "save" /\ slast.prev.ok)
         => slast.returned = IF slast.readFailed THEN DefaultsAsDocumented
                             ELSE slast.prev.arg
    /\ (slast.op = "load" /\ slast.prev.op = "save" /\ ~slast.prev.ok)
         => slast.returned \in {slast.prev.persisted, DefaultsAsDocumented}

\* C19 witness: settings with an empty api_key were saved over settings that
\* held the key sk-1, and the load returned the saved settings, key empty
C19_Witness ==
    /\ slast.op = "load" /\ ~slast.readFailed
    /\ slast.prev.op = "save" /\ slast.prev.ok
    /\ slast.prev.persisted.api_key = "sk-1"
    /\ slast.prev.arg.api_key = "" /\ slast.prev.arg.pal_name = "Rex"
    /\ slast.returned = slast.prev.arg

=============================================================================
